---- MODULE Spec2Model ----
(***************************************************************************)
(* Model of nicheinc/recaptcha: Response.Verify and the criteria Hostname, *)
(* Action, Score and ChallengeTs (Spec), concurrent Verify calls on one    *)
(* Response (SpecConc), and NewClient, Client.Fetch and the callers of the *)
(* examples (SpecClient).                                                  *)
(*                                                                         *)
(* The source tree holds successive revisions of the package.  The         *)
(* criteria of the VerifyOption revision (client.go:136-183), of the       *)
(* Criterion revision (client.go:332-397) and the variadic Hostname and    *)
(* Action that the tests and the example server call are modelled side by  *)
(* side; a call of Verify takes its criteria from one revision.            *)
(*                                                                         *)
(* Units: a score is counted in tenths (5 is 0.5), a time or a duration in *)
(* half seconds (2 is 1s, 1 is 500ms).                                     *)
(***************************************************************************)
EXTENDS Integers, Sequences, FiniteSets, TLC

\* ------------------------------------------------------------------ bounds
MaxCriteria == 3
MaxCodes == 2
MaxClock == 3
MaxConcCriteria == 2
MaxGoroutines == 2
MaxOptions == 2
MaxMockCallers == 3
MaxWindow == 3

\* ------------------------------------------------------------ input values
ErrorCodePool == {"invalid-input-secret", "timeout-or-duplicate"}
HostnamePool == {"niche.com", "nathanjcochran.com", "c.com"}
ActionPool == {"login", "register", "submit"}
ScorePool == {4, 5}
ChallengeTimes == {0}

RECURSIVE SeqsUpTo(_, _)
SeqsUpTo(S, n) ==
    IF n = 0 THEN {<<>>}
    ELSE LET shorter == SeqsUpTo(S, n - 1)
         IN  shorter \cup {Append(s, x) : s \in shorter, x \in S}

Range(s) == {s[k] : k \in 1..Len(s)}

\* ---------------------------------------------------------------- Response
Response ==
    [Success : BOOLEAN, Score : ScorePool, Action : ActionPool,
     ChallengeTs : ChallengeTimes, Hostname : HostnamePool,
     ErrorCodes : SeqsUpTo(ErrorCodePool, MaxCodes)]

ZeroResponse ==
    [Success |-> FALSE, Score |-> 0, Action |-> "", ChallengeTs |-> 0,
     Hostname |-> "", ErrorCodes |-> <<>>]

\* ------------------------------------------------------------------ errors
Nil == [kind |-> "nil"]

VerificationError(codes) ==
    [kind |-> "VerificationError", ErrorCodes |-> codes]

\* ------------------------------------------- criteria, VerifyOption revision
HostnameVerifyOption(hostname, r) ==
    IF r.Hostname # hostname
    THEN [kind |-> "InvalidHostnameError",
          Expected |-> hostname, Actual |-> r.Hostname]
    ELSE Nil

ActionVerifyOption(action, r) ==
    IF r.Action # action
    THEN [kind |-> "InvalidHostnameError",
          Expected |-> action, Actual |-> r.Action]
    ELSE Nil

ScoreVerifyOption(threshold, r) ==
    IF r.Score < threshold
    THEN [kind |-> "InvalidScoreError",
          Threshold |-> threshold, Actual |-> r.Score]
    ELSE Nil

\* ---------------------------------------------- criteria, Criterion revision
Hostname(hostname, r) ==
    IF r.Hostname # hostname
    THEN [kind |-> "InvalidHostnameError", Hostname |-> r.Hostname]
    ELSE Nil

Action(action, r) ==
    IF r.Action # action
    THEN [kind |-> "InvalidActionError", Action |-> r.Action]
    ELSE Nil

Score_Exclusive(threshold, r) ==
    IF r.Score <= threshold
    THEN [kind |-> "InvalidScoreError", Score |-> r.Score]
    ELSE Nil

Score(threshold, r) ==
    IF r.Score < threshold
    THEN [kind |-> "InvalidScoreError", Score |-> r.Score]
    ELSE Nil

ChallengeTs_Exclusive(window, r, t) ==
    LET diff == t - r.ChallengeTs
    IN  IF diff >= window
        THEN [kind |-> "InvalidChallengeTsError",
              ChallengeTs |-> r.ChallengeTs, Diff |-> 0]
        ELSE Nil

\* an age below zero counts as an age above zero
ChallengeTs_AbsoluteAge(window, r, t) ==
    LET diff == IF t < r.ChallengeTs THEN r.ChallengeTs - t
                ELSE t - r.ChallengeTs
    IN  IF diff > window
        THEN [kind |-> "InvalidChallengeTsError",
              ChallengeTs |-> r.ChallengeTs, Diff |-> 0]
        ELSE Nil

\* the age is taken from the time at which the criterion was built, the
\* clock of the initial state, not from the time of the evaluation
ChallengeTs_AtConstruction(window, r, t) ==
    LET diff == 2 - r.ChallengeTs
    IN  IF diff > window
        THEN [kind |-> "InvalidChallengeTsError",
              ChallengeTs |-> r.ChallengeTs, Diff |-> 0]
        ELSE Nil

\* t is the value the time source now() returns to this evaluation
ChallengeTs(window, r, t) ==
    LET diff == t - r.ChallengeTs
    IN  IF diff > window
        THEN [kind |-> "InvalidChallengeTsError",
              ChallengeTs |-> r.ChallengeTs, Diff |-> 0]
        ELSE Nil

\* ------------------------------ criteria, variadic Hostname and Action
HostnameVariadic_FirstOnly(hostnames, r) ==
    IF r.Hostname = hostnames[1]
    THEN Nil
    ELSE [kind |-> "InvalidHostnameError", Hostname |-> r.Hostname]

HostnameVariadic(hostnames, r) ==
    IF \E k \in 1..Len(hostnames) : r.Hostname = hostnames[k]
    THEN Nil
    ELSE [kind |-> "InvalidHostnameError", Hostname |-> r.Hostname]

ActionVariadic_FirstOnly(actions, r) ==
    IF r.Action = actions[1]
    THEN Nil
    ELSE [kind |-> "InvalidActionError", Action |-> r.Action]

ActionVariadic(actions, r) ==
    IF \E k \in 1..Len(actions) : r.Action = actions[k]
    THEN Nil
    ELSE [kind |-> "InvalidActionError", Action |-> r.Action]

\* --------------------------------------------------- criterion values
\* A criterion is a closure over its expected values: kind names the
\* constructor, api the revision, names and num the captured arguments.
Crit(kind, api, names, num) ==
    [kind |-> kind, api |-> api, names |-> names, num |-> num]

VerifyOptionPool ==
    { Crit("Hostname", "VerifyOption", <<"niche.com">>, 0),
      Crit("Action", "VerifyOption", <<"login">>, 0),
      Crit("Score", "VerifyOption", <<>>, 5) }

CriterionPool ==
    { Crit("Hostname", "Criterion", <<"niche.com">>, 0),
      Crit("Action", "Criterion", <<"login">>, 0),
      Crit("Score", "Criterion", <<>>, 5),
      Crit("ChallengeTs", "Criterion", <<>>, 2) }

VariadicPool ==
    { Crit("Hostname", "Variadic", <<"nathanjcochran.com", "niche.com">>, 0),
      Crit("Action", "Variadic", <<"register", "login">>, 0),
      Crit("Score", "Criterion", <<>>, 5),
      Crit("ChallengeTs", "Criterion", <<>>, 1) }

CriteriaLists ==
    SeqsUpTo(VerifyOptionPool, MaxCriteria)
        \cup SeqsUpTo(CriterionPool, MaxCriteria)
        \cup SeqsUpTo(VariadicPool, MaxCriteria)

ReadsNow(c) == c.kind = "ChallengeTs"

\* criterion(r): the call of one criterion on the response; t is the value
\* of the time source at the call
Apply(c, r, t) ==
    CASE c.kind = "Hostname" /\ c.api = "VerifyOption" ->
            HostnameVerifyOption(c.names[1], r)
      [] c.kind = "Action" /\ c.api = "VerifyOption" ->
            ActionVerifyOption(c.names[1], r)
      [] c.kind = "Score" /\ c.api = "VerifyOption" ->
            ScoreVerifyOption(c.num, r)
      [] c.kind = "Hostname" /\ c.api = "Criterion" -> Hostname(c.names[1], r)
      [] c.kind = "Action" /\ c.api = "Criterion" -> Action(c.names[1], r)
      [] c.kind = "Score" /\ c.api = "Criterion" -> Score(c.num, r)
      [] c.kind = "ChallengeTs" -> ChallengeTs(c.num, r, t)
      [] c.kind = "Hostname" /\ c.api = "Variadic" ->
            HostnameVariadic(c.names, r)
      [] c.kind = "Action" /\ c.api = "Variadic" -> ActionVariadic(c.names, r)

\* ------------------------------------------------------------------- state
VARIABLES
    response,   \* the receiver r of the current Verify call
    criteria,   \* the criteria of the current call, in the caller's order
    pc,         \* position of the call: idle, base, loop, done
    i,          \* index of the next criterion of the loop
    err,        \* the value Verify returned (Nil: success)
    evaluated,  \* history: <<index, result, time>> of every criterion invoked
    nowReads,   \* history: number of reads of the time source in this call
    clock,      \* the system clock, what time.Now() returns
    now,        \* the package variable now: "time.Now" or the test's "mock"
    current,    \* the time the mock has captured and returns
    shared,     \* a Response that several goroutines verify at once
    calls,      \* the frame of each goroutine's Verify call on shared
    client,     \* the *Client that NewClient returned
    args,       \* history: the secret and the options NewClient was given
    flow,       \* the caller whose code runs: an example or the server
    cpc,        \* position of the caller, the stage of Fetch included
    token,      \* the token argument of Fetch
    userIP,     \* the userIP argument of Fetch ("": omitted)
    request,    \* the request Fetch has created
    sent,       \* history: number of calls of the HTTP client's Do
    body,       \* the body of the HTTP response that Do returned
    stages,     \* history: the stages of Fetch that were attempted
    closed,     \* history: number of calls of res.Body.Close
    fetched,    \* the Response that Fetch returned
    fetchErr,   \* the error that Fetch returned (Nil: none)
    verifyCalled, \* history: the caller has invoked Verify on fetched
    FetchStub,  \* the field FetchStub of the Mock
    FetchCalled, \* the field FetchCalled of the Mock
    mockCalls   \* the frame of each goroutine's call of Mock.Fetch

verifyVars ==
    <<response, criteria, pc, i, err, evaluated, nowReads, clock, now, current>>

concVars == <<shared, calls>>

clientVars ==
    <<client, args, flow, cpc, token, userIP, request, sent, body, stages,
      closed, fetched, fetchErr, verifyCalled>>

mockVars == <<FetchStub, FetchCalled, mockCalls>>

\* what the steps of the single Verify call leave alone
otherVars == <<concVars, clientVars, mockVars>>

vars == <<verifyVars, otherVars>>

Now_SystemClock == clock

\* now(): the call of the time source through the package variable
Now == IF now = "time.Now" THEN clock ELSE current

Goroutines == 1..MaxGoroutines

IdleFrame ==
    [pc |-> "idle", criteria |-> <<>>, i |-> 1, err |-> Nil,
     evaluated |-> <<>>]

InitConcIdle ==
    /\ shared = ZeroResponse
    /\ calls = [g \in Goroutines |-> IdleFrame]

InitCall ==
    /\ response = ZeroResponse
    /\ criteria = <<>>
    /\ pc = "idle"
    /\ i = 1
    /\ err = Nil
    /\ evaluated = <<>>
    /\ nowReads = 0

InitVerify ==
    /\ InitCall
    /\ clock = 2
    /\ now = "time.Now"
    /\ current = 0

NoClient == [secret |-> "", url |-> "", client |-> ""]

NoRequest == [method |-> "", url |-> "", body |-> <<>>]

NoBody == [readable |-> FALSE, valid |-> FALSE, value |-> ZeroResponse]

InitClientIdle ==
    /\ client = NoClient
    /\ args = [secret |-> "", opts |-> <<>>]
    /\ flow = "none"
    /\ cpc = "init"
    /\ token = ""
    /\ userIP = ""
    /\ request = NoRequest
    /\ sent = 0
    /\ body = NoBody
    /\ stages = <<>>
    /\ closed = 0
    /\ fetched = ZeroResponse
    /\ fetchErr = Nil
    /\ verifyCalled = FALSE

MockGoroutines == 1..MaxMockCallers

IdleMockFrame ==
    [pc |-> "idle", token |-> "", userIP |-> "",
     result |-> <<ZeroResponse, Nil>>]

\* a Mock whose fields have their zero values; nobody calls it
InitMockIdle ==
    /\ FetchStub = "nil"
    /\ FetchCalled = 0
    /\ mockCalls = [g \in MockGoroutines |-> IdleMockFrame]

Init ==
    /\ InitVerify
    /\ InitConcIdle
    /\ InitClientIdle
    /\ InitMockIdle

\* responses whose challenge timestamp no clock of the model has reached
FutureResponses ==
    { [Success |-> TRUE, Score |-> sc, Action |-> "login",
       ChallengeTs |-> MaxClock + 1, Hostname |-> "niche.com",
       ErrorCodes |-> <<>>] : sc \in ScorePool }

\* the responses a caller verifies: what Fetch decoded, or the zero
\* Response that Fetch returns with an error
VerifyInputs == Response \cup {ZeroResponse} \cup FutureResponses

\* the caller invokes r.Verify(criteria...)
CallVerify ==
    /\ pc = "idle"
    /\ \E r \in VerifyInputs, cs \in CriteriaLists :
          /\ response' = r
          /\ criteria' = cs
    /\ pc' = "base"
    /\ i' = 1
    /\ err' = Nil
    /\ evaluated' = <<>>
    /\ nowReads' = 0
    /\ UNCHANGED <<clock, now, current, otherVars>>

BaseFailed_OnlyCodes(r) == Len(r.ErrorCodes) > 0

BaseFailed_OnlySuccess(r) == ~r.Success

BaseFailed_Both(r) == ~r.Success /\ Len(r.ErrorCodes) > 0

BaseFailed(r) == ~r.Success \/ Len(r.ErrorCodes) > 0

VerifyBase_SkipFirst ==
    /\ pc = "base"
    /\ IF BaseFailed(response)
       THEN /\ err' = VerificationError(response.ErrorCodes)
            /\ pc' = "done"
            /\ UNCHANGED i
       ELSE /\ pc' = "loop"
            /\ i' = 2
            /\ UNCHANGED err
    /\ UNCHANGED <<response, criteria, evaluated, nowReads, clock, now, current,
                   otherVars>>

VerifyBase_ConsumesCodes ==
    /\ pc = "base"
    /\ IF BaseFailed(response)
       THEN /\ err' = VerificationError(response.ErrorCodes)
            /\ response' = [response EXCEPT !.ErrorCodes = <<>>]
            /\ pc' = "done"
            /\ UNCHANGED i
       ELSE /\ pc' = "loop"
            /\ i' = 1
            /\ UNCHANGED <<err, response>>
    /\ UNCHANGED <<criteria, evaluated, nowReads, clock, now, current,
                   otherVars>>

\* the base check of Verify
VerifyBase ==
    /\ pc = "base"
    /\ IF BaseFailed(response)
       THEN /\ err' = VerificationError(response.ErrorCodes)
            /\ pc' = "done"
            /\ UNCHANGED i
       ELSE /\ pc' = "loop"
            /\ i' = 1
            /\ UNCHANGED err
    /\ UNCHANGED <<response, criteria, evaluated, nowReads, clock, now, current,
                   otherVars>>

VerifyCriterion_LastWins ==
    /\ pc = "loop"
    /\ i <= Len(criteria)
    /\ LET e == Apply(criteria[i], response, Now)
       IN  /\ evaluated' = Append(evaluated, <<i, e, Now>>)
           /\ nowReads' = IF ReadsNow(criteria[i]) THEN nowReads + 1
                          ELSE nowReads
           /\ IF e # Nil
              THEN /\ err' = e
                   /\ pc' = IF i = Len(criteria) THEN "done" ELSE "loop"
                   /\ i' = i + 1
              ELSE /\ i' = i + 1
                   /\ pc' = IF i = Len(criteria) /\ err # Nil
                            THEN "done" ELSE "loop"
                   /\ UNCHANGED err
    /\ UNCHANGED <<response, criteria, clock, now, current, otherVars>>

VerifyCriterion_Wraps ==
    /\ pc = "loop"
    /\ i <= Len(criteria)
    /\ LET e == Apply(criteria[i], response, Now)
       IN  /\ evaluated' = Append(evaluated, <<i, e, Now>>)
           /\ nowReads' = IF ReadsNow(criteria[i]) THEN nowReads + 1
                          ELSE nowReads
           /\ IF e # Nil
              THEN /\ err' = VerificationError(<<e.kind>>)
                   /\ pc' = "done"
                   /\ UNCHANGED i
              ELSE /\ i' = i + 1
                   /\ UNCHANGED <<err, pc>>
    /\ UNCHANGED <<response, criteria, clock, now, current, otherVars>>

\* one iteration of the loop over the criteria
VerifyCriterion ==
    /\ pc = "loop"
    /\ i <= Len(criteria)
    /\ LET e == Apply(criteria[i], response, Now)
       IN  /\ evaluated' = Append(evaluated, <<i, e, Now>>)
           /\ nowReads' = IF ReadsNow(criteria[i]) THEN nowReads + 1
                          ELSE nowReads
           /\ IF e # Nil
              THEN /\ err' = e
                   /\ pc' = "done"
                   /\ UNCHANGED i
              ELSE /\ i' = i + 1
                   /\ UNCHANGED <<err, pc>>
    /\ UNCHANGED <<response, criteria, clock, now, current, otherVars>>

\* the loop is exhausted: return nil
VerifyReturn ==
    /\ pc = "loop"
    /\ i > Len(criteria)
    /\ err' = Nil
    /\ pc' = "done"
    /\ UNCHANGED <<response, criteria, i, evaluated, nowReads, clock, now, current,
                   otherVars>>

\* the caller has taken the result; the call's frame is gone
Finish ==
    /\ pc = "done"
    /\ response' = ZeroResponse
    /\ criteria' = <<>>
    /\ pc' = "idle"
    /\ i' = 1
    /\ err' = Nil
    /\ evaluated' = <<>>
    /\ nowReads' = 0
    /\ UNCHANGED <<clock, now, current, otherVars>>

\* time passes: the time source returns a later value
Tick ==
    /\ clock < MaxClock
    /\ clock' = clock + 1
    /\ UNCHANGED <<response, criteria, pc, i, err, evaluated, nowReads,
                   now, current, otherVars>>

\* the test replaces the time source by a function that returns the time
\* of the replacement, before it runs its cases
MockNow ==
    /\ pc = "idle"
    /\ now = "time.Now"
    /\ now' = "mock"
    /\ current' = clock
    /\ UNCHANGED <<response, criteria, pc, i, err, evaluated, nowReads, clock,
                   otherVars>>

Next ==
    \/ CallVerify
    \/ VerifyBase
    \/ VerifyCriterion
    \/ VerifyReturn
    \/ Finish
    \/ Tick
    \/ MockNow

Spec == Init /\ [][Next]_vars

TypeOK ==
    /\ pc \in {"idle", "base", "loop", "done"}
    /\ i \in 1..(MaxCriteria + 2)
    /\ nowReads \in 0..(MaxCriteria + 1)
    /\ clock \in 2..(MaxClock + 1)
    /\ now \in {"time.Now", "mock"}
    /\ current \in 0..(MaxClock + 1)

\* ------------------------------------------ Verify as a function of its inputs
\* the value the time source returned to the k-th criterion of a call
TimeAt(ev, k) == IF k <= Len(ev) THEN ev[k][3] ELSE Now

RECURSIVE VerifyLoop_AcceptsOnPass(_, _, _, _)
VerifyLoop_AcceptsOnPass(r, cs, k, ev) ==
    IF k > Len(cs) THEN Nil
    ELSE LET e == Apply(cs[k], r, TimeAt(ev, k))
         IN  IF e = Nil THEN Nil
             ELSE IF k = Len(cs) THEN e
                  ELSE VerifyLoop_AcceptsOnPass(r, cs, k + 1, ev)

RECURSIVE VerifyLoop_LastWins(_, _, _, _)
VerifyLoop_LastWins(r, cs, k, ev) ==
    IF k > Len(cs) THEN Nil
    ELSE LET e == Apply(cs[k], r, TimeAt(ev, k))
             rest == VerifyLoop_LastWins(r, cs, k + 1, ev)
         IN  IF rest # Nil THEN rest ELSE e

RECURSIVE VerifyLoop(_, _, _, _)
VerifyLoop(r, cs, k, ev) ==
    IF k > Len(cs) THEN Nil
    ELSE LET e == Apply(cs[k], r, TimeAt(ev, k))
         IN  IF e # Nil THEN e ELSE VerifyLoop(r, cs, k + 1, ev)

\* r.Verify(cs...) run alone, the time source returning the times of ev
VerifyResult(r, cs, ev) ==
    IF BaseFailed(r) THEN VerificationError(r.ErrorCodes)
    ELSE VerifyLoop(r, cs, 1, ev)

\* ------------------------------------------------------ concurrent callers
ConcPool ==
    { Crit("Score", "Criterion", <<>>, 5),
      Crit("ChallengeTs", "Criterion", <<>>, 2) }

ConcLists == SeqsUpTo(ConcPool, MaxConcCriteria)

ConcResponses ==
    { [Success |-> TRUE, Score |-> 5, Action |-> "login", ChallengeTs |-> 0,
       Hostname |-> "niche.com", ErrorCodes |-> <<>>],
      [Success |-> TRUE, Score |-> 4, Action |-> "login", ChallengeTs |-> 0,
       Hostname |-> "niche.com", ErrorCodes |-> <<>>],
      [Success |-> TRUE, Score |-> 5, Action |-> "login", ChallengeTs |-> 0,
       Hostname |-> "niche.com", ErrorCodes |-> <<"invalid-input-secret">>] }

\* several goroutines hold the same *Response; the time source is the
\* real one or the one the test has installed before the calls
InitConc ==
    /\ InitCall
    /\ clock = 2
    /\ \/ now = "time.Now" /\ current = 0
       \/ now = "mock" /\ current = clock
    /\ shared \in ConcResponses
    /\ calls = [g \in Goroutines |-> IdleFrame]
    /\ InitClientIdle
    /\ InitMockIdle

\* goroutine g invokes shared.Verify(cs...)
ConcCall(g) ==
    /\ calls[g].pc = "idle"
    /\ \E cs \in ConcLists :
          calls' = [calls EXCEPT ![g] = [IdleFrame EXCEPT !.pc = "base",
                                                          !.criteria = cs]]
    /\ UNCHANGED <<verifyVars, shared, clientVars, mockVars>>

ConcBase(g) ==
    /\ calls[g].pc = "base"
    /\ calls' = [calls EXCEPT ![g] =
          IF BaseFailed(shared)
          THEN [@ EXCEPT !.err = VerificationError(shared.ErrorCodes),
                         !.pc = "done"]
          ELSE [@ EXCEPT !.pc = "loop", !.i = 1]]
    /\ UNCHANGED <<verifyVars, shared, clientVars, mockVars>>

ConcCriterion_SharedErr(g) ==
    /\ calls[g].pc = "loop"
    /\ calls[g].i <= Len(calls[g].criteria)
    /\ LET f == calls[g]
           e == Apply(f.criteria[f.i], shared, Now)
           ev == Append(f.evaluated, <<f.i, e, Now>>)
       IN  calls' = [h \in Goroutines |->
              IF h = g
              THEN IF e # Nil
                   THEN [f EXCEPT !.evaluated = ev, !.err = e, !.pc = "done"]
                   ELSE [f EXCEPT !.evaluated = ev, !.i = f.i + 1]
              ELSE IF e # Nil /\ calls[h].pc = "done"
                   THEN [calls[h] EXCEPT !.err = e]
                   ELSE calls[h]]
    /\ UNCHANGED <<verifyVars, shared, clientVars, mockVars>>

ConcCriterion(g) ==
    /\ calls[g].pc = "loop"
    /\ calls[g].i <= Len(calls[g].criteria)
    /\ LET f == calls[g]
           e == Apply(f.criteria[f.i], shared, Now)
           ev == Append(f.evaluated, <<f.i, e, Now>>)
       IN  calls' = [calls EXCEPT ![g] =
              IF e # Nil
              THEN [f EXCEPT !.evaluated = ev, !.err = e, !.pc = "done"]
              ELSE [f EXCEPT !.evaluated = ev, !.i = f.i + 1]]
    /\ UNCHANGED <<verifyVars, shared, clientVars, mockVars>>

ConcReturn(g) ==
    /\ calls[g].pc = "loop"
    /\ calls[g].i > Len(calls[g].criteria)
    /\ calls' = [calls EXCEPT ![g] = [@ EXCEPT !.err = Nil, !.pc = "done"]]
    /\ UNCHANGED <<verifyVars, shared, clientVars, mockVars>>

\* goroutine g has taken its result
ConcFinish(g) ==
    /\ calls[g].pc = "done"
    /\ calls' = [calls EXCEPT ![g] = IdleFrame]
    /\ UNCHANGED <<verifyVars, shared, clientVars, mockVars>>

NextConc ==
    \/ \E g \in Goroutines : ConcCall(g)
    \/ \E g \in Goroutines : ConcBase(g)
    \/ \E g \in Goroutines : ConcCriterion(g)
    \/ \E g \in Goroutines : ConcReturn(g)
    \/ \E g \in Goroutines : ConcFinish(g)
    \/ Tick

SpecConc == InitConc /\ [][NextConc]_vars

\* ------------------------------------------------------------------ Client
DefaultURL == "https://www.google.com/recaptcha/api/siteverify"

SetHTTPClient(hc, c) == [c EXCEPT !.client = hc]

SetURL_WrongField(url, c) == [c EXCEPT !.secret = url]

SetURL(url, c) == [c EXCEPT !.url = url]

\* an Option is a closure over its argument
Opt(name, arg) == [opt |-> name, arg |-> arg]

OptionPool ==
    { Opt("SetURL", "url"), Opt("SetURL", "\\x7f"),
      Opt("SetHTTPClient", "httpClientMock"),
      Opt("SetHTTPClient", "http.Client") }

OptionLists == SeqsUpTo(OptionPool, MaxOptions)

\* opt(client)
ApplyOption(o, c) ==
    IF o.opt = "SetURL" THEN SetURL(o.arg, c) ELSE SetHTTPClient(o.arg, c)

RECURSIVE ApplyOptions(_, _, _)
ApplyOptions(c, opts, k) ==
    IF k > Len(opts) THEN c
    ELSE ApplyOptions(ApplyOption(opts[k], c), opts, k + 1)

NewClient(secret, opts) ==
    ApplyOptions([secret |-> secret, url |-> DefaultURL,
                  client |-> "http.DefaultClient"], opts, 1)

Secrets == {"secret", "my_secret"}
Tokens == {"token"}
UserIPs == {"", "192.169.0.1"}

Values_AlwaysIP(secret, tok, ip) ==
    [k \in {"secret", "response", "remoteIP"} |->
        CASE k = "secret" -> secret
          [] k = "response" -> tok
          [] k = "remoteIP" -> ip]

\* the url.Values of the request: secret, response and, unless the userIP
\* is empty, remoteIP
Values(secret, tok, ip) ==
    [k \in (IF ip # "" THEN {"secret", "response", "remoteIP"}
            ELSE {"secret", "response"}) |->
        CASE k = "secret" -> secret
          [] k = "response" -> tok
          [] k = "remoteIP" -> ip]

\* values.Encode(): the key=value pairs in the order of the sorted keys
KeyOrder == <<"remoteIP", "response", "secret">>

RECURSIVE EncodeFrom(_, _)
EncodeFrom(v, k) ==
    IF k > Len(KeyOrder) THEN <<>>
    ELSE IF KeyOrder[k] \in DOMAIN v
         THEN <<<<KeyOrder[k], v[KeyOrder[k]]>>>> \o EncodeFrom(v, k + 1)
         ELSE EncodeFrom(v, k + 1)

Encode(v) == EncodeFrom(v, 1)

\* http.NewRequest fails when the URL does not parse
ValidURL(u) == u # "\\x7f"

\* xerrors.Errorf(msg + ": %w", cause)
FetchError(msg, cause) == [kind |-> "xerrors", msg |-> msg, cause |-> cause]

FetchResponses ==
    { [Success |-> TRUE, Score |-> 5, Action |-> "my_action",
       ChallengeTs |-> 0, Hostname |-> "my_hostname", ErrorCodes |-> <<>>],
      [Success |-> TRUE, Score |-> 5, Action |-> "submit",
       ChallengeTs |-> 0, Hostname |-> "localhost", ErrorCodes |-> <<>>],
      [Success |-> FALSE, Score |-> 0, Action |-> "",
       ChallengeTs |-> 0, Hostname |-> "",
       ErrorCodes |-> <<"timeout-or-duplicate">>] }

\* what the endpoint sends: a body that cannot be read, one that is not
\* the JSON of a Response, or the JSON of a Response
Bodies ==
    { [readable |-> FALSE, valid |-> FALSE, value |-> ZeroResponse],
      [readable |-> TRUE, valid |-> FALSE, value |-> ZeroResponse] }
    \cup { [readable |-> TRUE, valid |-> TRUE, value |-> r] :
              r \in FetchResponses }

Flows == {"Example", "README", "ExampleFatal", "submitHandler"}

\* the criteria the caller passes to Verify
FlowCriteria(f) ==
    IF f = "submitHandler"
    THEN << Crit("Hostname", "Variadic", <<"localhost">>, 0),
            Crit("Action", "Variadic", <<"submit">>, 0),
            Crit("Score", "Criterion", <<>>, 5) >>
    ELSE << Crit("Hostname", "Criterion", <<"my_hostname">>, 0),
            Crit("Action", "Criterion", <<"my_action">>, 0),
            Crit("Score", "Criterion", <<>>, 5) >>

\* on a failed Fetch the caller ends: log.Fatal, or http.Error and return
StopsOnFetchError(f) == f \in {"ExampleFatal", "submitHandler"}

\* the caller constructs its client
NewClientCall ==
    /\ cpc = "init"
    /\ \E secret \in Secrets, opts \in OptionLists :
          /\ client' = NewClient(secret, opts)
          /\ args' = [secret |-> secret, opts |-> opts]
    /\ cpc' = "ready"
    /\ UNCHANGED <<flow, token, userIP, request, sent, body, stages, closed,
                   fetched, fetchErr, verifyCalled, verifyVars, concVars,
                   mockVars>>

\* the caller invokes client.Fetch(ctx, token, userIP)
FetchCall ==
    /\ cpc = "ready"
    /\ \E f \in Flows, tok \in Tokens, ip \in UserIPs :
          /\ flow' = f
          /\ token' = tok
          /\ userIP' = ip
    /\ cpc' = "NewRequest"
    /\ UNCHANGED <<client, args, request, sent, body, stages, closed,
                   fetched, fetchErr, verifyCalled, verifyVars, concVars,
                   mockVars>>

\* Fetch builds the form values and the POST request
FetchNewRequest ==
    /\ cpc = "NewRequest"
    /\ stages' = Append(stages, "NewRequest")
    /\ IF ValidURL(client.url)
       THEN /\ request' = [method |-> "POST", url |-> client.url,
                           body |-> Encode(Values(client.secret, token,
                                                  userIP))]
            /\ cpc' = "Do"
            /\ UNCHANGED <<fetched, fetchErr>>
       ELSE /\ fetched' = ZeroResponse
            /\ fetchErr' = FetchError("error creating POST request",
                                      "url.Error")
            /\ cpc' = "fetched"
            /\ UNCHANGED request
    /\ UNCHANGED <<client, args, flow, token, userIP, sent, body, closed,
                   verifyCalled, verifyVars, concVars,
                   mockVars>>

\* Fetch sends the request; the HTTP client answers or fails
FetchDo ==
    /\ cpc = "Do"
    /\ stages' = Append(stages, "Do")
    /\ sent' = sent + 1
    /\ \/ \E b \in Bodies :
            /\ body' = b
            /\ cpc' = "ReadAll"
            /\ UNCHANGED <<fetched, fetchErr>>
       \/ /\ fetched' = ZeroResponse
          /\ fetchErr' = FetchError("error making POST request", "Do")
          /\ cpc' = "fetched"
          /\ UNCHANGED body
    /\ UNCHANGED <<client, args, flow, token, userIP, request, closed,
                   verifyCalled, verifyVars, concVars,
                   mockVars>>

FetchReadAll_IgnoresError ==
    /\ cpc = "ReadAll"
    /\ stages' = Append(stages, "ReadAll")
    /\ cpc' = "Unmarshal"
    /\ UNCHANGED <<fetched, fetchErr, closed>>
    /\ UNCHANGED <<client, args, flow, token, userIP, request, sent, body,
                   verifyCalled, verifyVars, concVars,
                   mockVars>>

FetchReadAll_NoCloseOnError ==
    /\ cpc = "ReadAll"
    /\ stages' = Append(stages, "ReadAll")
    /\ IF body.readable
       THEN /\ cpc' = "Unmarshal"
            /\ UNCHANGED <<fetched, fetchErr, closed>>
       ELSE /\ fetched' = ZeroResponse
            /\ fetchErr' = FetchError("error reading response body", "Read")
            /\ cpc' = "fetched"
            /\ UNCHANGED closed
    /\ UNCHANGED <<client, args, flow, token, userIP, request, sent, body,
                   verifyCalled, verifyVars, concVars,
                   mockVars>>

\* Fetch reads the body; on a failure it returns and the deferred Close runs
FetchReadAll ==
    /\ cpc = "ReadAll"
    /\ stages' = Append(stages, "ReadAll")
    /\ IF body.readable
       THEN /\ cpc' = "Unmarshal"
            /\ UNCHANGED <<fetched, fetchErr, closed>>
       ELSE /\ fetched' = ZeroResponse
            /\ fetchErr' = FetchError("error reading response body", "Read")
            /\ closed' = closed + 1
            /\ cpc' = "fetched"
    /\ UNCHANGED <<client, args, flow, token, userIP, request, sent, body,
                   verifyCalled, verifyVars, concVars,
                   mockVars>>

\* Fetch decodes the body and returns; the deferred Close runs
FetchUnmarshal ==
    /\ cpc = "Unmarshal"
    /\ stages' = Append(stages, "Unmarshal")
    /\ IF body.valid
       THEN /\ fetched' = body.value
            /\ fetchErr' = Nil
       ELSE /\ fetched' = ZeroResponse
            /\ fetchErr' = FetchError("error unmarshalling response body",
                                      "json.UnmarshalTypeError")
    /\ closed' = closed + 1
    /\ cpc' = "fetched"
    /\ UNCHANGED <<client, args, flow, token, userIP, request, sent, body,
                   verifyCalled, verifyVars, concVars,
                   mockVars>>

\* Fetch failed and the caller gives up
FlowStop ==
    /\ cpc = "fetched"
    /\ fetchErr # Nil
    /\ StopsOnFetchError(flow)
    /\ cpc' = "end"
    /\ UNCHANGED <<client, args, flow, token, userIP, request, sent, body,
                   stages, closed, fetched, fetchErr, verifyCalled,
                   verifyVars, concVars,
                   mockVars>>

\* the server cannot marshal or write the response and returns
FlowWriteFails ==
    /\ cpc = "fetched"
    /\ fetchErr = Nil
    /\ flow = "submitHandler"
    /\ cpc' = "end"
    /\ UNCHANGED <<client, args, flow, token, userIP, request, sent, body,
                   stages, closed, fetched, fetchErr, verifyCalled,
                   verifyVars, concVars,
                   mockVars>>

\* the caller goes on to response.Verify(criteria...)
FlowVerify ==
    /\ cpc = "fetched"
    /\ fetchErr # Nil => ~StopsOnFetchError(flow)
    /\ pc = "idle"
    /\ response' = fetched
    /\ criteria' = FlowCriteria(flow)
    /\ pc' = "base"
    /\ i' = 1
    /\ err' = Nil
    /\ evaluated' = <<>>
    /\ nowReads' = 0
    /\ verifyCalled' = TRUE
    /\ cpc' = "Verify"
    /\ UNCHANGED <<client, args, flow, token, userIP, request, sent, body,
                   stages, closed, fetched, fetchErr, clock, now, current,
                   concVars, mockVars>>

\* Verify has returned; the caller reports the verdict
FlowEnd ==
    /\ cpc = "Verify"
    /\ pc = "done"
    /\ cpc' = "end"
    /\ UNCHANGED <<client, args, flow, token, userIP, request, sent, body,
                   stages, closed, fetched, fetchErr, verifyCalled,
                   verifyVars, concVars,
                   mockVars>>

NextClient ==
    \/ NewClientCall
    \/ FetchCall
    \/ FetchNewRequest
    \/ FetchDo
    \/ FetchReadAll
    \/ FetchUnmarshal
    \/ FlowStop
    \/ FlowWriteFails
    \/ FlowVerify
    \/ VerifyBase
    \/ VerifyCriterion
    \/ VerifyReturn
    \/ FlowEnd

SpecClient == Init /\ [][NextClient]_vars

\* -------------------------------------------------------------------- Mock
MaxInt32 == 2147483647
MinInt32 == -MaxInt32 - 1

\* atomic.AddInt32 of a delta that is not negative: the sum in the 32 bits
\* of an int32, which wraps around past MaxInt32
AddInt32(x, delta) ==
    IF x > MaxInt32 - delta
    THEN MinInt32 + (delta - (MaxInt32 - x) - 1)
    ELSE x + delta

StubError == [kind |-> "errors", msg |-> "AAHHH"]

StubResponse ==
    [Success |-> TRUE, Score |-> 5, Action |-> "login", ChallengeTs |-> 0,
     Hostname |-> "niche.com", ErrorCodes |-> <<>>]

\* the functions a test stores in FetchStub; "nil": the field is not set
StubPool == {"nil", "succeeds", "fails", "byUserIP"}

\* m.FetchStub(ctx, token, userIP), for a stub that is not nil
CallStub(stub, tok, ip) ==
    CASE stub = "succeeds" -> <<StubResponse, Nil>>
      [] stub = "fails" -> <<ZeroResponse, StubError>>
      [] stub = "byUserIP" ->
            IF ip = "" THEN <<ZeroResponse, StubError>>
            ELSE <<[StubResponse EXCEPT !.Hostname = ip], Nil>>

\* the test has built its Mock; the goroutines have not called it yet
InitMock ==
    /\ InitVerify
    /\ InitConcIdle
    /\ InitClientIdle
    /\ FetchStub \in StubPool
    /\ FetchCalled = 0
    /\ mockCalls = [g \in MockGoroutines |-> IdleMockFrame]

\* goroutine g invokes m.Fetch(ctx, token, userIP)
MockFetchCall(g) ==
    /\ mockCalls[g].pc = "idle"
    /\ \E tok \in Tokens, ip \in UserIPs :
          mockCalls' = [mockCalls EXCEPT ![g] =
              [IdleMockFrame EXCEPT !.pc = "AddInt32", !.token = tok,
                                    !.userIP = ip]]
    /\ UNCHANGED <<FetchStub, FetchCalled, verifyVars, concVars, clientVars>>

MockAddInt32_LostUpdate(g) ==
    /\ mockCalls[g].pc = "AddInt32"
    /\ FetchCalled' =
          AddInt32(Cardinality({h \in MockGoroutines :
                                   mockCalls[h].pc \in {"done", "panic"}}), 1)
    /\ mockCalls' = [mockCalls EXCEPT ![g].pc = "FetchStub"]
    /\ UNCHANGED <<FetchStub, verifyVars, concVars, clientVars>>

\* atomic.AddInt32(&m.FetchCalled, 1): one indivisible step
MockAddInt32(g) ==
    /\ mockCalls[g].pc = "AddInt32"
    /\ FetchCalled' = AddInt32(FetchCalled, 1)
    /\ mockCalls' = [mockCalls EXCEPT ![g].pc = "FetchStub"]
    /\ UNCHANGED <<FetchStub, verifyVars, concVars, clientVars>>

\* return m.FetchStub(ctx, token, userIP); the call of a nil func panics
MockFetchStub(g) ==
    /\ mockCalls[g].pc = "FetchStub"
    /\ LET f == mockCalls[g]
       IN  mockCalls' = [mockCalls EXCEPT ![g] =
              IF FetchStub = "nil"
              THEN [f EXCEPT !.pc = "panic"]
              ELSE [f EXCEPT !.pc = "done",
                             !.result = CallStub(FetchStub, f.token,
                                                 f.userIP)]]
    /\ UNCHANGED <<FetchStub, FetchCalled, verifyVars, concVars, clientVars>>

NextMock ==
    \/ \E g \in MockGoroutines : MockFetchCall(g)
    \/ \E g \in MockGoroutines : MockAddInt32(g)
    \/ \E g \in MockGoroutines : MockFetchStub(g)

SpecMock == InitMock /\ [][NextMock]_vars

\* ------------------------------------------------------------ properties
Returned == pc = "done"

BaseOK == response.Success /\ response.ErrorCodes = <<>>

IsBaseFailure(e) ==
    /\ e.kind = "VerificationError"
    /\ e.ErrorCodes = response.ErrorCodes

\* the pass conditions of the criteria, as the specification tables them
Passes(c, r, t) ==
    CASE c.kind = "Hostname" -> r.Hostname \in Range(c.names)
      [] c.kind = "Action" -> r.Action \in Range(c.names)
      [] c.kind = "Score" -> r.Score >= c.num
      [] c.kind = "ChallengeTs" -> t - r.ChallengeTs <= c.num

\* C1: whenever Verify has returned on a response whose success flag is
\* false, the returned value is the base verification failure carrying the
\* response's error codes, whatever criteria were supplied.
C1_SuccessFalseIsBaseFailure ==
    (Returned /\ ~response.Success) => IsBaseFailure(err)

C1_Witness ==
    /\ Returned
    /\ ~response.Success
    /\ response.ErrorCodes = <<>>
    /\ Len(criteria) = MaxCriteria
    /\ \A k \in 1..Len(criteria) : Passes(criteria[k], response, Now)
    /\ IsBaseFailure(err)

\* C2: whenever Verify has returned on a response with a non-empty list of
\* error codes (its success flag may be true), the returned value is the
\* base verification failure and its code list is the response's list,
\* element for element in the same order.
C2_ErrorCodesCarriedExactly ==
    (Returned /\ Len(response.ErrorCodes) > 0) =>
        /\ err.kind = "VerificationError"
        /\ Len(err.ErrorCodes) = Len(response.ErrorCodes)
        /\ \A k \in 1..Len(response.ErrorCodes) :
              err.ErrorCodes[k] = response.ErrorCodes[k]

C2_Witness ==
    /\ Returned
    /\ response.Success
    /\ response.ErrorCodes = <<"timeout-or-duplicate", "invalid-input-secret">>
    /\ err.kind = "VerificationError"
    /\ err.ErrorCodes = <<"timeout-or-duplicate", "invalid-input-secret">>

\* C3: during and after a Verify call on a response that fails the base
\* check (success false or error codes present) no criterion has been
\* invoked, the time source has not been read and the loop over the
\* criteria is never entered.
C3_BaseCheckShortCircuits ==
    (pc # "idle" /\ ~BaseOK) =>
        /\ evaluated = <<>>
        /\ nowReads = 0
        /\ pc # "loop"

C3_Witness ==
    /\ Returned
    /\ ~BaseOK
    /\ \E k \in 1..Len(criteria) : criteria[k].kind = "ChallengeTs"
    /\ evaluated = <<>>
    /\ nowReads = 0

\* C4: the criteria are invoked in the caller's order, one after the other
\* from the first; every invoked criterion but the last one passed, so
\* nothing is invoked after the first failure; the value returned on a
\* failure is the result of the last, failing invocation; and a criterion
\* whose failure does not depend on the time bounds how far the loop gets.
C4_FirstFailureWins ==
    /\ \A k \in 1..Len(evaluated) :
          /\ evaluated[k][1] = k
          /\ k <= Len(criteria)
          /\ k < Len(evaluated) => evaluated[k][2] = Nil
    /\ (Returned /\ BaseOK /\ err # Nil) =>
          /\ Len(evaluated) > 0
          /\ err = evaluated[Len(evaluated)][2]
    /\ (Returned /\ BaseOK) =>
          \A k \in 1..Len(criteria) :
              (criteria[k].kind # "ChallengeTs"
                   /\ ~Passes(criteria[k], response, Now))
                => (Len(evaluated) <= k /\ err # Nil)

C4_Witness ==
    /\ Returned
    /\ BaseOK
    /\ Len(criteria) = 3
    /\ criteria[1].kind = "Hostname"
    /\ criteria[2].kind = "Score"
    /\ criteria[3].kind = "Action"
    /\ Passes(criteria[1], response, Now)
    /\ ~Passes(criteria[2], response, Now)
    /\ ~Passes(criteria[3], response, Now)
    /\ err.kind = "InvalidScoreError"
    /\ Len(evaluated) = 2

\* C5: Verify returns nil exactly when the response passes the base check
\* and every criterion passes: a nil result means success is true, the
\* error codes are empty and each criterion of the list was invoked and
\* passes at the time it was invoked; and when the base check and every
\* criterion pass (at the time of the return, ages never shrink) the result
\* is nil.  With no criteria this is success true and no error codes.
C5_NilIffAllPass ==
    Returned =>
        /\ (err = Nil) =>
              /\ BaseOK
              /\ Len(evaluated) = Len(criteria)
              /\ \A k \in 1..Len(criteria) :
                    Passes(criteria[k], response, evaluated[k][3])
        /\ (BaseOK /\ \A k \in 1..Len(criteria) :
                          Passes(criteria[k], response, Now))
              => err = Nil
        /\ (criteria = <<>>) => (err = Nil <=> BaseOK)

C5_Witness ==
    /\ Returned
    /\ err = Nil
    /\ BaseOK
    /\ Len(criteria) = 3
    /\ {criteria[k].kind : k \in 1..3} = {"Hostname", "Action", "Score"}

HasField(e, f) == f \in DOMAIN e

\* the failure names the expected values: it has an Expected field, which
\* for a criterion built from one value holds that value
CarriesExpected(e, names) ==
    /\ HasField(e, "Expected")
    /\ Len(names) = 1 => e.Expected = names[1]

\* C8: whenever Verify returns the failure of an Action criterion, the
\* failure is of the invalid-action kind, not of the invalid-hostname
\* kind, and carries the expected action(s) and the response's action.
C8_ActionFailureKindAndPayload ==
    (Returned /\ BaseOK /\ err # Nil
        /\ criteria[Len(evaluated)].kind = "Action") =>
            /\ err.kind = "InvalidActionError"
            /\ err.kind # "InvalidHostnameError"
            /\ CarriesExpected(err, criteria[Len(evaluated)].names)
            /\ \/ HasField(err, "Actual") /\ err.Actual = response.Action
               \/ HasField(err, "Action") /\ err.Action = response.Action

\* C9: whenever Verify returns the failure of a Hostname criterion, the
\* failure is of the invalid-hostname kind and carries the expected
\* hostname(s) and the response's hostname.
C9_HostnameFailurePayload ==
    (Returned /\ BaseOK /\ err # Nil
        /\ criteria[Len(evaluated)].kind = "Hostname") =>
            /\ err.kind = "InvalidHostnameError"
            /\ CarriesExpected(err, criteria[Len(evaluated)].names)
            /\ \/ HasField(err, "Actual") /\ err.Actual = response.Hostname
               \/ HasField(err, "Hostname") /\ err.Hostname = response.Hostname

\* C10: every invocation of a Score criterion passes exactly when the
\* response's score is at least the threshold; a score equal to the
\* threshold passes.
C10_ScoreInclusive ==
    \A k \in 1..Len(evaluated) :
        criteria[k].kind = "Score" =>
            (evaluated[k][2] = Nil <=> response.Score >= criteria[k].num)

C10_Witness ==
    /\ Returned
    /\ err = Nil
    /\ Len(criteria) = 1
    /\ criteria[1].kind = "Score"
    /\ criteria[1].num = 5
    /\ response.Score = 5
    /\ evaluated = <<<<1, Nil, evaluated[1][3]>>>>

\* C11: whenever Verify returns the failure of a Score criterion, the
\* failure is of the invalid-score kind and carries the criterion's
\* threshold and the response's score.
C11_ScoreFailurePayload ==
    (Returned /\ BaseOK /\ err # Nil
        /\ criteria[Len(evaluated)].kind = "Score") =>
            /\ err.kind = "InvalidScoreError"
            /\ HasField(err, "Threshold")
            /\ err.Threshold = criteria[Len(evaluated)].num
            /\ \/ HasField(err, "Actual") /\ err.Actual = response.Score
               \/ HasField(err, "Score") /\ err.Score = response.Score

\* C12: every invocation of a ChallengeTs criterion passes exactly when
\* the age of the challenge, the value read from the time source minus the
\* response's challenge timestamp, is at most the window; an age equal to
\* the window passes.
C12_ChallengeTsInclusive ==
    \A k \in 1..Len(evaluated) :
        criteria[k].kind = "ChallengeTs" =>
            (evaluated[k][2] = Nil
                <=> evaluated[k][3] - response.ChallengeTs <= criteria[k].num)

C12_Witness ==
    /\ Returned
    /\ err = Nil
    /\ Len(criteria) = 1
    /\ criteria[1].kind = "ChallengeTs"
    /\ criteria[1].num = 2
    /\ evaluated = <<<<1, Nil, response.ChallengeTs + 2>>>>

\* C13: whenever Verify returns the failure of a ChallengeTs criterion,
\* the failure carries the response's challenge timestamp and, as Diff,
\* the computed age: the value read from the time source minus the
\* challenge timestamp.
C13_ChallengeTsFailurePayload ==
    (Returned /\ BaseOK /\ err # Nil
        /\ criteria[Len(evaluated)].kind = "ChallengeTs") =>
            /\ err.kind = "InvalidChallengeTsError"
            /\ err.ChallengeTs = response.ChallengeTs
            /\ HasField(err, "Diff")
            /\ err.Diff = evaluated[Len(evaluated)][3] - response.ChallengeTs

FailureKinds ==
    {"VerificationError", "InvalidHostnameError", "InvalidActionError",
     "InvalidScoreError", "InvalidChallengeTsError"}

\* C14: a failure Verify returns after the base check passed is the very
\* value the last invoked criterion produced; with no criteria the only
\* failure is the base verification failure; and every failure is of one
\* of the five kinds, the base kind exactly when the base check failed.
C14_FailuresVerbatimAndTyped ==
    Returned =>
        /\ (BaseOK /\ err # Nil) =>
              /\ Len(evaluated) > 0
              /\ err = Apply(criteria[Len(evaluated)], response,
                             evaluated[Len(evaluated)][3])
        /\ (criteria = <<>> /\ err # Nil) => err.kind = "VerificationError"
        /\ err # Nil => err.kind \in FailureKinds
        /\ err # Nil => (err.kind = "VerificationError" <=> ~BaseOK)

C14_Witness ==
    /\ Returned
    /\ BaseOK
    /\ Len(criteria) = 2
    /\ Len(evaluated) = 2
    /\ err.kind = "InvalidActionError"
    /\ err.Action = response.Action
    /\ err = evaluated[2][2]

\* C16: no step of a Verify call changes the response or the criteria:
\* from the call to the return all six fields of the response and the
\* captured values of the criteria stay what they were.
C16_VerifyLeavesResponseUnchanged ==
    [][(pc \in {"base", "loop"})
          => (response' = response /\ criteria' = criteria)]_vars

C16_Witness ==
    /\ Returned
    /\ response \in Response
    /\ Len(response.ErrorCodes) = MaxCodes
    /\ Len(criteria) > 0
    /\ err.kind = "VerificationError"

\* C17: the freshness check takes the time from the package variable now
\* alone: once the test has replaced it, every invocation of a ChallengeTs
\* criterion reads the captured time and its outcome is decided by the
\* challenge timestamp, the window and that captured time, however far the
\* system clock has moved on.
C17_FreshnessReadsTimeSource ==
    now = "mock" =>
        \A k \in 1..Len(evaluated) :
            criteria[k].kind = "ChallengeTs" =>
                /\ evaluated[k][3] = current
                /\ evaluated[k][2] = Nil
                      <=> current - response.ChallengeTs <= criteria[k].num

C17_Witness ==
    /\ pc = "loop"
    /\ now = "mock"
    /\ clock > current
    /\ Len(evaluated) = 2
    /\ criteria[1].kind = "ChallengeTs"
    /\ criteria[2].kind = "ChallengeTs"
    /\ criteria[1].num = current - response.ChallengeTs
    /\ evaluated[1][2] = Nil
    /\ evaluated[2][2] = Nil

C18_NoVerifyAfterFailedFetch ==
    verifyCalled => fetchErr = Nil

\* the argument of the last option of the given name, or the default
RECURSIVE LastArg(_, _, _, _)
LastArg(opts, name, k, default) ==
    IF k = 0 THEN default
    ELSE IF opts[k].opt = name THEN opts[k].arg
         ELSE LastArg(opts, name, k - 1, default)

\* C19: the client NewClient returns has the given secret; its URL is the
\* argument of the last SetURL among the options, DefaultURL if there is
\* none; its HTTP client is the argument of the last SetHTTPClient,
\* http.DefaultClient if there is none.
C19_NewClientOptions ==
    cpc # "init" =>
        /\ client.secret = args.secret
        /\ client.url = LastArg(args.opts, "SetURL", Len(args.opts),
                                DefaultURL)
        /\ client.client = LastArg(args.opts, "SetHTTPClient",
                                   Len(args.opts), "http.DefaultClient")

C19_Witness ==
    /\ cpc = "ready"
    /\ args.opts = <<Opt("SetURL", "\\x7f"), Opt("SetURL", "url")>>
    /\ client = [secret |-> args.secret, url |-> "url",
                 client |-> "http.DefaultClient"]

Param(b, key) == {b[k][2] : k \in {j \in 1..Len(b) : b[j][1] = key}}

\* C20: Fetch sends at most one request; the request it has built is a
\* POST to the client's URL whose form body has exactly one secret
\* parameter, the client's secret, exactly one response parameter, the
\* token, and a remoteIP parameter, the userIP, exactly when the userIP is
\* not empty.
C20_FetchRequest ==
    /\ sent <= 1
    /\ sent = 1 => request # NoRequest
    /\ request # NoRequest =>
          /\ request.method = "POST"
          /\ request.url = client.url
          /\ Param(request.body, "secret") = {client.secret}
          /\ Param(request.body, "response") = {token}
          /\ Param(request.body, "remoteIP") =
                (IF userIP # "" THEN {userIP} ELSE {})
          /\ Len(request.body) = (IF userIP # "" THEN 3 ELSE 2)

C20_Witness ==
    /\ cpc = "end"
    /\ sent = 1
    /\ userIP = ""
    /\ request.method = "POST"
    /\ request.url = DefaultURL
    /\ request.body = <<<<"response", token>>, <<"secret", client.secret>>>>

\* Fetch has returned to its caller
FetchReturned == cpc \in {"fetched", "Verify", "end"}

FetchStages == <<"NewRequest", "Do", "ReadAll", "Unmarshal">>

\* the error a stage fails with, which Fetch wraps
StageCause(stage) ==
    CASE stage = "NewRequest" -> "url.Error"
      [] stage = "Do" -> "Do"
      [] stage = "ReadAll" -> "Read"
      [] stage = "Unmarshal" -> "json.UnmarshalTypeError"

\* the stage cannot succeed on what Fetch has been given
StageFails(stage) ==
    CASE stage = "NewRequest" -> ~ValidURL(client.url)
      [] stage = "Do" -> FALSE
      [] stage = "ReadAll" -> ~body.readable
      [] stage = "Unmarshal" -> ~body.valid

\* C21: Fetch attempts its stages in the order NewRequest, Do, ReadAll,
\* Unmarshal, each only after the stages before it succeeded.  When it
\* returns an error, the last stage attempted is the one that failed, the
\* Response is the zero Response and the error wraps that stage's cause;
\* when it returns nil, all four stages were attempted and the Response is
\* the decoded one.  A non-nil error never comes with a non-zero Response.
C21_FetchStopsAtFirstFailure ==
    /\ Len(stages) <= Len(FetchStages)
    /\ \A k \in 1..Len(stages) : stages[k] = FetchStages[k]
    /\ \A k \in 1..(Len(stages) - 1) : ~StageFails(stages[k])
    /\ FetchReturned =>
          /\ Len(stages) > 0
          /\ fetchErr # Nil =>
                /\ fetched = ZeroResponse
                /\ fetchErr.kind = "xerrors"
                /\ fetchErr.cause = StageCause(stages[Len(stages)])
                /\ stages[Len(stages)] # "Do" => StageFails(stages[Len(stages)])
          /\ fetchErr = Nil =>
                /\ stages = FetchStages
                /\ body.readable /\ body.valid
                /\ fetched = body.value
          /\ ~(fetched # ZeroResponse /\ fetchErr # Nil)

C21_Witness ==
    /\ cpc = "fetched"
    /\ stages = <<"NewRequest", "Do", "ReadAll">>
    /\ ~body.readable
    /\ fetched = ZeroResponse
    /\ fetchErr = FetchError("error reading response body", "Read")

\* the calls of Mock.Fetch that have got past the increment
MockCounted == {g \in MockGoroutines : mockCalls[g].pc \notin {"idle", "AddInt32"}}

\* C22: whatever the interleaving of the goroutines' calls of Mock.Fetch,
\* FetchCalled is the number of calls that have got past the increment, so
\* each call adds exactly one, does so before it calls FetchStub, and no
\* increment is lost; and a call that has returned returns what FetchStub
\* gives for the call's token and userIP.
C22_MockFetchCountsAndDelegates ==
    /\ FetchCalled = Cardinality(MockCounted)
    /\ \A g \in MockGoroutines :
          /\ mockCalls[g].pc \in {"FetchStub", "done", "panic"}
                => FetchCalled >= 1
          /\ mockCalls[g].pc = "done" =>
                mockCalls[g].result =
                    CallStub(FetchStub, mockCalls[g].token, mockCalls[g].userIP)

C22_Witness ==
    /\ \A g \in MockGoroutines : mockCalls[g].pc = "done"
    /\ FetchCalled = MaxMockCallers
    /\ FetchStub = "byUserIP"
    /\ \E g, h \in MockGoroutines :
          mockCalls[g].result[2] = Nil /\ mockCalls[h].result[2] # Nil

\* C23: a Verify call on the zero Response, whatever the criteria, invokes
\* no criterion, never reads the time source, never enters the loop, and
\* returns the base verification failure with an empty code list.
C23_ZeroResponseRejected ==
    (pc # "idle" /\ response = ZeroResponse) =>
        /\ evaluated = <<>>
        /\ nowReads = 0
        /\ pc # "loop"
        /\ Returned => err = VerificationError(<<>>)

C23_Witness ==
    /\ Returned
    /\ response = ZeroResponse
    /\ Len(criteria) >= MaxCriteria
    /\ criteria[1].kind = "ChallengeTs"
    /\ err = VerificationError(<<>>)
    /\ evaluated = <<>>

\* the criteria in another order: p is a permutation of the indices
Permute(cs, p) == [k \in 1..Len(cs) |-> cs[p[k]]]

\* every criterion of the call was given the value the time source has now
TimeFixed == \A k \in 1..Len(evaluated) : evaluated[k][3] = Now

\* C24: when a Verify call has returned and the time source gave every
\* criterion the same value, the call returned what Verify computes for its
\* response and criteria at that value, and Verify at that value accepts
\* the response under every reordering of the criteria exactly when it
\* accepts it under the caller's order; only the failure may differ.
C24_VerdictOrderIndependent ==
    (Returned /\ TimeFixed) =>
        /\ err = VerifyResult(response, criteria, <<>>)
        /\ \A p \in Permutations(1..Len(criteria)) :
              (VerifyResult(response, Permute(criteria, p), <<>>) = Nil)
                  <=> (err = Nil)

C24_Witness ==
    /\ Returned
    /\ TimeFixed
    /\ BaseOK
    /\ Len(criteria) = 2
    /\ err.kind = "InvalidScoreError"
    /\ VerifyResult(response, <<criteria[2], criteria[1]>>, <<>>).kind
          = "InvalidChallengeTsError"

\* the criteria of cs whose index is in I, in the order of cs
RECURSIVE SubList(_, _, _)
SubList(cs, I, k) ==
    IF k > Len(cs) THEN <<>>
    ELSE (IF k \in I THEN <<cs[k]>> ELSE <<>>) \o SubList(cs, I, k + 1)

\* C25: when a Verify call has returned and the time source gave every
\* criterion the same value, the call returned what Verify computes at that
\* value; if Verify at that value fails with a prefix of the call's
\* criteria, the call, whose list extends that prefix, returned the
\* identical failure; and if the call returned nil, Verify at that value
\* returns nil for every sub-list of the call's criteria.
C25_MoreCriteriaOnlyStricter ==
    (Returned /\ TimeFixed) =>
        /\ err = VerifyResult(response, criteria, <<>>)
        /\ \A n \in 0..Len(criteria) :
              LET short == VerifyResult(response, SubSeq(criteria, 1, n), <<>>)
              IN  short # Nil => err = short
        /\ err = Nil =>
              \A I \in SUBSET (1..Len(criteria)) :
                  VerifyResult(response, SubList(criteria, I, 1), <<>>) = Nil

C25_Witness ==
    /\ Returned
    /\ TimeFixed
    /\ BaseOK
    /\ Len(criteria) = 3
    /\ Len(evaluated) = 1
    /\ err # Nil
    /\ err = VerifyResult(response, SubSeq(criteria, 1, 1), <<>>)
    /\ criteria[2].kind # criteria[1].kind
    /\ ~Passes(criteria[2], response, Now)

\* C26: a ChallengeTs criterion decides each invocation by the value the
\* time source returns at that invocation: the invocation passes exactly
\* when that value minus the challenge timestamp is at most the window.
\* So of two invocations of the same criterion on the same Response, the
\* one at the later or equal time rejects whenever the earlier one rejects;
\* and no invocation has read a time beyond the present one.
C26_FreshnessAtEvaluationTime ==
    \A g, h \in Goroutines :
        \A j \in 1..Len(calls[g].evaluated), k \in 1..Len(calls[h].evaluated) :
            LET c == calls[g].criteria[j]
                d == calls[h].criteria[k]
                x == calls[g].evaluated[j]
                y == calls[h].evaluated[k]
            IN  c.kind = "ChallengeTs" =>
                    /\ x[2] = Nil <=> x[3] - shared.ChallengeTs <= c.num
                    /\ x[3] <= Now
                    /\ (d = c /\ x[3] <= y[3] /\ x[2] # Nil) => y[2] # Nil

C26_Witness ==
    /\ calls[1].pc = "done"
    /\ calls[2].pc = "done"
    /\ calls[1].criteria = <<Crit("ChallengeTs", "Criterion", <<>>, 2)>>
    /\ calls[2].criteria = calls[1].criteria
    /\ calls[1].err = Nil
    /\ calls[2].err.kind = "InvalidChallengeTsError"
    /\ Len(calls[1].evaluated) = 1
    /\ Len(calls[2].evaluated) = 1
    /\ calls[1].evaluated[1][3] < calls[2].evaluated[1][3]

\* C27: a ChallengeTs criterion never fails a response whose challenge
\* timestamp lies after the value of the time source: every invocation that
\* read a time before the response's timestamp passed, and for every window
\* from zero up the criterion passes the response at the present value of
\* the time source when the timestamp lies after it.
C27_FutureTimestampPasses ==
    /\ \A k \in 1..Len(evaluated) :
          (criteria[k].kind = "ChallengeTs"
              /\ evaluated[k][3] < response.ChallengeTs)
            => evaluated[k][2] = Nil
    /\ Now < response.ChallengeTs =>
          \A window \in 0..MaxWindow :
              ChallengeTs(window, response, Now) = Nil

C27_Witness ==
    /\ Returned
    /\ err = Nil
    /\ response.ChallengeTs > Now
    /\ Len(criteria) = 2
    /\ Len(evaluated) = 2
    /\ criteria[2] = Crit("ChallengeTs", "Criterion", <<>>, 1)
    /\ evaluated[2][3] - response.ChallengeTs < 0
    /\ evaluated[2][2] = Nil

\* c.client.Do returned a response and no error
DoSucceeded ==
    /\ Len(stages) >= 2
    /\ ~(FetchReturned /\ Len(stages) = 2)

\* C28: the body of the response is closed when Fetch returns and not
\* before, and never twice: once Fetch has returned, Close has been called
\* exactly once if Do had returned a response (whether reading and decoding
\* then succeeded or not) and not at all if Do or the creation of the
\* request failed.
C28_BodyClosedExactlyOnce ==
    /\ closed <= 1
    /\ ~FetchReturned => closed = 0
    /\ FetchReturned => closed = (IF DoSucceeded THEN 1 ELSE 0)

C28_Witness ==
    /\ cpc = "fetched"
    /\ sent = 1
    /\ body.readable
    /\ ~body.valid
    /\ stages = FetchStages
    /\ fetchErr # Nil
    /\ closed = 1
====
